---- MODULE Spec2Model ----
(***************************************************************************)
(* Shopify x402 payment bridge: the shop and payment tables, the           *)
(* facilitator client and the payment handlers of src/src/index.ts, each   *)
(* handler cut at its awaits so that concurrent requests interleave at the *)
(* store and at the outbound calls.                                        *)
(***************************************************************************)
EXTENDS Integers, Sequences, FiniteSets, Bags, TLC

VARIABLES
    shops,      \* table "Shop": shopDomain -> row, or NoShop
    payments,   \* table "Payment": rows in creation order
    requests,   \* bag of the verify handlers in flight: each one's locals and position
    orderLog,   \* calls made to shopifyOrderService.createOrder, in order
    sent,       \* the response sent last, with the route and shop of its request
    issued,     \* number of payment requests received so far
    call        \* a call of X402Service.verifyPayment on its own: input and result

vars == <<shops, payments, requests, orderLog, sent, issued, call>>

(***************************************************************************)
(* Bounds and input sets                                                   *)
(***************************************************************************)
MaxRequests == 2

\* The connections the server is reached over: one handler in flight each.
Connections == {"c1", "c2"}
ShopDomains == {"demo.myshopify.com", "other.myshopify.com"}
TxHashes == {"0xdeadbeef", "0xfeed"}

\* JavaScript undefined / SQL NULL / the empty string are the falsy values
\* a request field or a nullable column can take.
Undefined == "undefined"
Null == "null"
Falsy(x) == x \in {Undefined, Null, ""}

Wallets == {"0xWallet"}
Tokens == {"USDC"}
Networks == {"base"}

\* JSON values of the facilitator's "verified" field.
JTrue == [t |-> "boolean", v |-> "true"]
JFalse == [t |-> "boolean", v |-> "false"]
JStringTrue == [t |-> "string", v |-> "true"]
JUndefined == [t |-> "undefined", v |-> "undefined"]

\* x === true
StrictlyTrue(x) == x = JTrue

(***************************************************************************)
(* Table "Shop"                                                            *)
(***************************************************************************)
NoShop == [absent |-> TRUE]

\* Row created by the OAuth callback: the payment columns take their defaults.
NewShop(domain) ==
    [id |-> domain,
     shopDomain |-> domain,
     walletAddress |-> Null,
     acceptedToken |-> Null,
     acceptedNetwork |-> Null,
     isX402Enabled |-> FALSE]

\* prisma.shop.findUnique({ where: { shopDomain } })
FindShop(domain) == IF domain \in ShopDomains THEN shops[domain] ELSE NoShop

\* An update that writes nothing.
KeepColumn(old, new) == old

\* A column of prisma.shop.update's data: undefined leaves the column alone.
SetColumn(old, new) == IF new = Undefined THEN old ELSE new

(***************************************************************************)
(* Facilitator client (X402Service)                                        *)
(***************************************************************************)
NoTransaction == [absent |-> TRUE]
OnChainTx ==
    [hash |-> "0xchain", from |-> "0xPayer", to |-> "0xPayee", value |-> "10",
     token |-> "USDC", blockNumber |-> "block", timestamp |-> "chainTime"]

\* What the outbound POST can come back with: a 2xx response with a body, or
\* a rejection of the axios promise.
JsonNull == [object |-> FALSE]
FacilitatorBodies ==
    {[object |-> TRUE, verified |-> JTrue, transaction |-> OnChainTx, status |-> Undefined],
     [object |-> TRUE, verified |-> JFalse, transaction |-> OnChainTx, status |-> "rejected"],
     [object |-> TRUE, verified |-> JStringTrue, transaction |-> NoTransaction, status |-> Undefined],
     [object |-> TRUE, verified |-> JUndefined, transaction |-> NoTransaction, status |-> "pending"],
     JsonNull}
FacilitatorFailures == {"non2xx", "timeout", "transport"}
FacilitatorOutcomes ==
    {[kind |-> "2xx", data |-> d] : d \in FacilitatorBodies}
        \cup {[kind |-> k, data |-> JsonNull] : k \in FacilitatorFailures}

\* The outcomes the handlers are run against: verified, rejected, unreachable.
HandlerOutcomes ==
    {o \in FacilitatorOutcomes :
        \/ o.kind = "transport"
        \/ o.kind = "2xx" /\ o.data.object /\ o.data.verified \in {JTrue, JFalse}}

\* The try block throws when axios rejects, or when the body is not an object
\* (response.data.verified on null).
VerifyThrows(outcome) == outcome.kind # "2xx" \/ ~outcome.data.object

\* A truthiness test in place of the strict comparison.
VerifiedFieldTruthy(data) == data.verified \notin {JFalse, JUndefined}

\* verified: response.data.verified === true
VerifiedField(data) == StrictlyTrue(data.verified)

\* X402Service.verifyPayment: the value the promise resolves to.
verifyPayment(request, outcome) ==
    IF VerifyThrows(outcome)
    THEN [verified |-> FALSE,
          transaction |->
              [hash |-> request.txHash, from |-> request.fromAddress,
               to |-> request.toAddress, value |-> request.amount,
               token |-> request.tokenAddress, blockNumber |-> "0",
               timestamp |-> "now"],
          status |-> "failed"]
    ELSE [verified |-> VerifiedField(outcome.data),
          transaction |-> outcome.data.transaction,
          status |-> IF Falsy(outcome.data.status) THEN "verified"
                     ELSE outcome.data.status]

\* Outbound POSTs one call of verifyPayment makes.
VerifyAttempts(outcome) == 1

NoVerification == [absent |-> TRUE]

\* X402Service.generatePaymentRequest
generatePaymentRequest(merchantWallet, tokenAddress, amount, network, productId, productTitle) ==
    [protocol |-> "x402", version |-> "2.0", recipient |-> merchantWallet,
     token |-> tokenAddress, amount |-> amount, network |-> network,
     metadata |-> [productId |-> productId, productTitle |-> productTitle,
                   timestamp |-> "now"]]

(***************************************************************************)
(* Table "Payment"                                                         *)
(***************************************************************************)
NoPayment == [absent |-> TRUE]
UniqueViolation == "Unique constraint failed on the fields: txHash"
ValidationError == "Argument is missing or null"

\* The columns of "Payment" that are NOT NULL and that the handlers supply.
RequiredColumns ==
    {"shopId", "productId", "productTitle", "amount", "txHash", "fromAddress",
     "toAddress", "tokenAddress", "network"}

MissingColumn(data) == \E k \in RequiredColumns : data[k] \in {Undefined, Null}

\* The table without its unique index.
NoUniqueIndex(rows, txHash) == FALSE

\* CREATE UNIQUE INDEX "Payment_txHash_key" ON "Payment"("txHash")
TxHashTaken(rows, txHash) == \E i \in 1..Len(rows) : rows[i].txHash = txHash

\* A create that does not meet the unique index.
PaymentCreateNoIndex(rows, data) ==
    IF \E k \in {"shopId", "productId", "productTitle", "amount", "txHash",
                  "fromAddress", "toAddress", "tokenAddress", "network"} :
           data[k] \in {"undefined", "null"}
    THEN [ok |-> FALSE, error |-> "Argument is missing or null", row |-> [absent |-> TRUE]]
    ELSE [ok |-> TRUE, error |-> "", row |-> [id |-> Len(rows) + 1] @@ data]

\* prisma.payment.create({ data }): the created row, or the error thrown.
PaymentCreate(rows, data) ==
    IF MissingColumn(data) THEN [ok |-> FALSE, error |-> ValidationError, row |-> NoPayment]
    ELSE IF TxHashTaken(rows, data.txHash)
    THEN [ok |-> FALSE, error |-> UniqueViolation, row |-> NoPayment]
    ELSE [ok |-> TRUE, error |-> "",
          row |-> [id |-> Len(rows) + 1] @@ data]

\* "createdAt" TIMESTAMP(3) DEFAULT CURRENT_TIMESTAMP: the clock read at the
\* insert, in milliseconds.  It never runs backwards, and an insert that
\* follows another within the same millisecond reads the same value.
Now(rows) ==
    IF rows = <<>> THEN {1}
    ELSE {rows[Len(rows)].createdAt, rows[Len(rows)].createdAt + 1}

Stamped(row, now) == [createdAt |-> now] @@ row

\* The data object both verify handlers build.
PaymentData(req, facilitatorStatus, status) ==
    [shopId |-> req.shopData.id,
     productId |-> req.body.productId,
     productTitle |-> IF Falsy(req.body.productTitle) THEN "Unknown Product"
                      ELSE req.body.productTitle,
     amount |-> req.body.amount,
     txHash |-> req.body.txHash,
     fromAddress |-> req.body.fromAddress,
     toAddress |-> req.shopData.walletAddress,
     tokenAddress |-> req.shopData.acceptedToken,
     network |-> req.shopData.acceptedNetwork,
     facilitatorStatus |-> facilitatorStatus,
     verificationData |-> req.verification,
     status |-> status]

(***************************************************************************)
(* Order client (shopifyOrderService)                                      *)
(***************************************************************************)
NoOrder == [absent |-> TRUE]
OrderOutcomes == {"created", "remoteError"}
OrderError == "Failed to create Shopify order"

\* shopifyOrderService.createOrder: one Admin-API call; the receipt, or the
\* error thrown with the remote message.
createOrder(args, outcome) ==
    IF outcome = "created"
    THEN [ok |-> TRUE, error |-> "",
          order |-> [shop |-> args.shop, financial_status |-> "paid",
                     txHash |-> args.txHash, customer |-> args.customerAddress]]
    ELSE [ok |-> FALSE, error |-> OrderError, order |-> NoOrder]

(***************************************************************************)
(* Requests                                                                *)
(***************************************************************************)
NoBody ==
    [txHash |-> Undefined, fromAddress |-> Undefined, amount |-> Undefined,
     productId |-> Undefined, productTitle |-> Undefined]
NoResponse == [code |-> 0]
NothingSent == [route |-> "none", shop |-> Undefined, resp |-> NoResponse]

\* The locals of a handler that has just been entered.
NewRequest(route, shop, body) ==
    [route |-> route, pc |-> "received", shop |-> shop, body |-> body,
     shopData |-> NoShop, facilitatorCalls |-> 0,
     verification |-> NoVerification, payment |-> NoPayment]

CompleteBody(txHash) ==
    [txHash |-> txHash, fromAddress |-> "0xBuyer", amount |-> "10",
     productId |-> "p1", productTitle |-> "Widget"]

\* Bodies of the verify endpoints: a complete one, one without productTitle
\* and one without a required field.
VerifyBodies ==
    {CompleteBody("0xdeadbeef"),
     [CompleteBody("0xfeed") EXCEPT !.productTitle = Undefined],
     [CompleteBody("0xdeadbeef") EXCEPT !.amount = Undefined]}

\* Bodies of the payment-request endpoints.
RequestBodies ==
    {[NoBody EXCEPT !.productId = "p1", !.productTitle = "Widget", !.amount = "10"],
     [NoBody EXCEPT !.productId = "p1", !.productTitle = "Widget"]}

\* What a proxied request carries about the shop: the query parameters shop,
\* path_prefix and timestamp, and the x-shopify-shop-domain header.
ProxyEnvelopes ==
    {[queryShop |-> d, pathPrefix |-> Undefined, timestamp |-> Undefined,
      headerShop |-> Undefined] : d \in ShopDomains}
        \cup {[queryShop |-> Undefined, pathPrefix |-> "/apps/x402-checkout",
               timestamp |-> Undefined, headerShop |-> "demo.myshopify.com"],
              [queryShop |-> Undefined, pathPrefix |-> Undefined,
               timestamp |-> "1700000000", headerShop |-> "other.myshopify.com"],
              [queryShop |-> Undefined, pathPrefix |-> Undefined,
               timestamp |-> Undefined, headerShop |-> "demo.myshopify.com"]}

Or(a, b) == IF Falsy(a) THEN b ELSE a

getShopFromProxy(req) ==
    IF ~Falsy(req.queryShop) THEN req.queryShop
    ELSE IF ~Falsy(req.pathPrefix) /\ ~Falsy(req.headerShop) THEN req.headerShop
    ELSE IF ~Falsy(req.timestamp) THEN Or(req.queryShop, req.headerShop)
    ELSE Null

\* const shop = req.query.shop as string || getShopFromProxy(req)
ProxyShop(req) == Or(req.queryShop, getShopFromProxy(req))

ErrorResponse(code, message) == [code |-> code, error |-> message]

\* res.json(...) / res.status(...).json(...): what the client receives.
Response(req, response) ==
    [route |-> req.route, shop |-> req.shop, resp |-> response]

InFlight == BagToSet(requests)

CanReceive ==
    /\ BagCardinality(requests) < Cardinality(Connections)
    /\ issued < MaxRequests

NoCall == [made |-> FALSE]

\* The outcome of one step of a handler: it goes on with its locals, or it
\* answers and returns.
Continue(req) == [req |-> req, answered |-> FALSE, response |-> NothingSent]
Respond(req, response) ==
    [req |-> req, answered |-> TRUE, response |-> Response(req, response)]

\* A request is received and the handler runs to its first await or answer.
Enter(step) ==
    /\ requests' = IF step.answered THEN requests
                   ELSE requests (+) SetToBag({step.req})
    /\ sent' = IF step.answered THEN step.response ELSE sent

\* The handler `req` resumes and runs to its next await or answer.
Resume(req, step) ==
    /\ requests' = IF step.answered THEN requests (-) SetToBag({req})
                   ELSE (requests (-) SetToBag({req})) (+) SetToBag({step.req})
    /\ sent' = IF step.answered THEN step.response ELSE sent

Init ==
    /\ shops = [d \in ShopDomains |-> NoShop]
    /\ payments = <<>>
    /\ requests = EmptyBag
    /\ orderLog = <<>>
    /\ sent = NothingSent
    /\ issued = 0
    /\ call = NoCall

(***************************************************************************)
(* OAuth callback and merchant configuration                               *)
(***************************************************************************)
\* Handlers read "Shop" only as they receive a request, so a configuration
\* change after the last request of a run is seen by no handler and is left
\* out of the run.
Observable == issued < MaxRequests

\* GET /api/auth/callback: prisma.shop.upsert touches accessToken and scope
\* only, so an existing row keeps its payment columns.
AuthCallback(domain) ==
    /\ Observable
    /\ shops[domain] = NoShop
    /\ shops' = [shops EXCEPT ![domain] = NewShop(domain)]
    /\ UNCHANGED <<payments, requests, orderLog, sent, issued, call>>

\* POST /api/config: prisma.shop.update throws for a shop that is not stored.
ApiConfigUpdate(shop, walletAddress, acceptedToken, acceptedNetwork, isX402Enabled) ==
    /\ Observable
    /\ FindShop(shop) # NoShop
    /\ shops' = [shops EXCEPT ![shop] =
                    [@ EXCEPT !.walletAddress = SetColumn(@, walletAddress),
                              !.acceptedToken = SetColumn(@, acceptedToken),
                              !.acceptedNetwork = SetColumn(@, acceptedNetwork),
                              !.isX402Enabled =
                                  IF isX402Enabled = "true" THEN TRUE
                                  ELSE IF isX402Enabled = "false" THEN FALSE
                                  ELSE @]]
    /\ shops' # shops
    /\ UNCHANGED <<payments, requests, orderLog, sent, issued, call>>

(***************************************************************************)
(* POST /api/payment/request and POST /shopify-proxy/api/payment/request   *)
(* Each handler reads the store once and writes nothing, so it is one      *)
(* step.                                                                   *)
(***************************************************************************)
\* The guard without its test of the flag.
NotEnabledIgnoresFlag(shopData) == shopData = NoShop

\* if (!shopData || !shopData.isX402Enabled)
NotEnabled(shopData) == shopData = NoShop \/ ~shopData.isX402Enabled

\* if (!shopData.walletAddress || !shopData.acceptedToken || !shopData.acceptedNetwork)
ConfigIncomplete(shopData) ==
    \/ Falsy(shopData.walletAddress)
    \/ Falsy(shopData.acceptedToken)
    \/ Falsy(shopData.acceptedNetwork)

ApiPaymentRequestResponse(shopData, body) ==
    IF NotEnabled(shopData)
    THEN ErrorResponse(400, "x402 payments not enabled for this shop")
    ELSE IF ConfigIncomplete(shopData)
    THEN ErrorResponse(400, "Shop payment configuration incomplete")
    ELSE [code |-> 200,
          paymentRequest |->
              generatePaymentRequest(shopData.walletAddress, shopData.acceptedToken,
                  body.amount, shopData.acceptedNetwork, body.productId,
                  body.productTitle)]

ProxyPaymentRequestResponse(shopData, body) ==
    IF NotEnabled(shopData)
    THEN ErrorResponse(400, "x402 payments not enabled")
    ELSE [code |-> 200,
          paymentRequest |->
              generatePaymentRequest(shopData.walletAddress, shopData.acceptedToken,
                  body.amount, shopData.acceptedNetwork, body.productId,
                  body.productTitle)]

\* if (!shop || !productId || !amount)
RequestParamsMissing(shop, body) ==
    Falsy(shop) \/ Falsy(body.productId) \/ Falsy(body.amount)

ApiPaymentRequest(shop, body) ==
    /\ CanReceive
    /\ issued' = issued + 1
    /\ LET req == NewRequest("api_request", shop, body)
       IN Enter(IF RequestParamsMissing(shop, body)
                THEN Respond(req, ErrorResponse(400, "Missing required parameters"))
                ELSE Respond(req, ApiPaymentRequestResponse(FindShop(shop), body)))
    /\ UNCHANGED <<shops, payments, orderLog, call>>

ProxyPaymentRequest(envelope, body) ==
    /\ CanReceive
    /\ issued' = issued + 1
    /\ LET shop == ProxyShop(envelope)
           req == NewRequest("proxy_request", shop, body)
       IN Enter(IF RequestParamsMissing(shop, body)
                THEN Respond(req, ErrorResponse(400, "Missing required parameters"))
                ELSE Respond(req, ProxyPaymentRequestResponse(FindShop(shop), body)))
    /\ UNCHANGED <<shops, payments, orderLog, call>>

(***************************************************************************)
(* POST /api/payment/verify and POST /shopify-proxy/api/payment/verify     *)
(* One step per await: verifyPayment, payment.create, createOrder.  The    *)
(* handler touches nothing shared before its first await, findUnique, so   *)
(* receiving the request and that read are one step.                       *)
(***************************************************************************)
\* if (!shop || !txHash || !fromAddress || !amount)
VerifyParamsMissing(shop, body) ==
    Falsy(shop) \/ Falsy(body.txHash) \/ Falsy(body.fromAddress) \/ Falsy(body.amount)

\* const shopData = await prisma.shop.findUnique(...); if (!shopData) 404
\* Nothing between this and the facilitator call looks at the shop's flags.
ShopGuard(req, shopData) ==
    IF shopData = NoShop
    THEN Respond(req, ErrorResponse(404, "Shop not found"))
    ELSE Continue([req EXCEPT !.pc = "verifyPayment", !.shopData = shopData])

ReceiveVerify(route, shop, body) ==
    /\ issued' = issued + 1
    /\ LET req == NewRequest(route, shop, body)
       IN Enter(IF VerifyParamsMissing(shop, body)
                THEN Respond(req, ErrorResponse(400, "Missing required parameters"))
                ELSE ShopGuard(req, FindShop(shop)))
    /\ UNCHANGED <<shops, payments, orderLog, call>>

ApiPaymentVerify(shop, body) ==
    /\ CanReceive
    /\ ReceiveVerify("api_verify", shop, body)

ProxyPaymentVerify(envelope, body) ==
    /\ CanReceive
    /\ ReceiveVerify("proxy_verify", ProxyShop(envelope), body)

\* The request object both handlers hand to verifyPayment.
VerifyRequest(req) ==
    [txHash |-> req.body.txHash,
     network |-> req.shopData.acceptedNetwork,
     fromAddress |-> req.body.fromAddress,
     toAddress |-> req.shopData.walletAddress,
     tokenAddress |-> req.shopData.acceptedToken,
     amount |-> req.body.amount]

\* The proxy handler without its early return.
AfterVerificationNoReturn(req) == Continue([req EXCEPT !.pc = "createPayment"])

\* After the verification result: the proxy handler answers 400 when it is
\* not verified; the direct handler goes on to store the payment either way.
AfterVerification(req) ==
    IF req.route = "proxy_verify" /\ ~req.verification.verified
    THEN Respond(req, [code |-> 400, error |-> "Payment verification failed",
                       verified |-> FALSE])
    ELSE Continue([req EXCEPT !.pc = "createPayment"])

CallFacilitator(req, outcome) ==
    /\ req.pc = "verifyPayment"
    /\ Resume(req, AfterVerification(
            [req EXCEPT !.facilitatorCalls = @ + VerifyAttempts(outcome),
                        !.verification = verifyPayment(VerifyRequest(req), outcome)]))
    /\ UNCHANGED <<shops, payments, orderLog, issued, call>>

VerifyCallFacilitator(outcome) == \E req \in InFlight : CallFacilitator(req, outcome)

\* The status written as a literal in both handlers.
RowStatusLiteral(req) == "completed"

\* facilitatorStatus / status of the row: the direct handler derives them
\* from verification.verified, the proxy handler writes them as literals.
RowFacilitatorStatus(req) ==
    IF req.route = "proxy_verify" THEN "verified"
    ELSE IF req.verification.verified THEN "verified" ELSE "failed"

RowStatus(req) ==
    IF req.route = "proxy_verify" THEN "completed"
    ELSE IF req.verification.verified THEN "completed" ELSE "failed"

\* The catch block of each verify handler.
VerifyCatch(req, message) ==
    IF req.route = "proxy_verify"
    THEN Respond(req, ErrorResponse(500, message))
    ELSE Respond(req, ErrorResponse(500, "Payment verification failed"))

\* After prisma.payment.create resolved with `row`.
AfterCreate(req, row) ==
    IF req.route = "proxy_verify"
    THEN Continue([req EXCEPT !.pc = "createOrder", !.payment = row])
    ELSE Respond(req,
                 [code |-> 200, verified |-> req.verification.verified,
                  paymentId |-> row.id, status |-> row.status,
                  transaction |-> req.verification.transaction])

StorePayment(req) ==
    /\ req.pc = "createPayment"
    /\ LET created == PaymentCreate(payments,
                          PaymentData(req, RowFacilitatorStatus(req), RowStatus(req)))
       IN IF created.ok
          THEN \E now \in Now(payments) :
                  LET row == Stamped(created.row, now)
                  IN /\ payments' = Append(payments, row)
                     /\ Resume(req, AfterCreate(req, row))
          ELSE /\ payments' = payments
               /\ Resume(req, VerifyCatch(req, created.error))
    /\ UNCHANGED <<shops, orderLog, issued, call>>

VerifyStorePayment == \E req \in InFlight : StorePayment(req)

\* The arguments of shopifyOrderService.createOrder.
OrderArgs(req) ==
    [shop |-> req.shopData.shopDomain,
     productId |-> req.body.productId,
     productTitle |-> req.body.productTitle,
     productPrice |-> req.body.amount,
     customerAddress |-> req.body.fromAddress,
     txHash |-> req.body.txHash,
     paymentAmount |-> req.body.amount]

\* A catch block that deletes the handler's payment row.
OrderFailureRollback(rows, req) == SelectSeq(rows, LAMBDA row : row.id # req.payment.id)

\* A catch block that marks the handler's payment row as failed.
OrderFailureMarksFailed(rows, req) ==
    [i \in 1..Len(rows) |->
        IF rows[i].id = req.payment.id THEN [rows[i] EXCEPT !.status = "failed"]
        ELSE rows[i]]

\* The rows left in "Payment" when createOrder threw: the catch block only
\* answers, it does not touch the store.
OrderFailureRows(rows, req) == rows

\* What the log keeps of one createOrder call: the handler's payment and
\* verification result at the call, and whether the call succeeded.
OrderCall(req, ok) ==
    [txHash |-> req.body.txHash, paymentId |-> req.payment.id,
     verified |-> req.verification.verified, ok |-> ok]

CreateOrder(req, outcome) ==
    /\ req.pc = "createOrder"
    /\ LET result == createOrder(OrderArgs(req), outcome)
       IN /\ orderLog' = Append(orderLog, OrderCall(req, result.ok))
          /\ IF result.ok
             THEN /\ payments' = payments
                  /\ Resume(req, Respond(req,
                            [code |-> 200, verified |-> TRUE,
                             paymentId |-> req.payment.id, order |-> result.order,
                             transaction |-> req.verification.transaction]))
             ELSE /\ payments' = OrderFailureRows(payments, req)
                  /\ Resume(req, VerifyCatch(req, result.error))
    /\ UNCHANGED <<shops, issued, call>>

ProxyCreateOrder(outcome) == \E req \in InFlight : CreateOrder(req, outcome)

(***************************************************************************)
(* Specification                                                           *)
(***************************************************************************)
\* Bodies of POST /api/config: the settings form posts the four fields
\* together; a partial body carries the flag alone.
ConfigBodies ==
    {[walletAddress |-> w, acceptedToken |-> t, acceptedNetwork |-> n,
      isX402Enabled |-> e] :
        w \in Wallets, t \in Tokens, n \in Networks, e \in {"true", "false"}}
        \cup {[walletAddress |-> Undefined, acceptedToken |-> Undefined,
               acceptedNetwork |-> Undefined, isX402Enabled |-> "true"]}

ShopInputs == ShopDomains \cup {Undefined}

\* The verify flows: the handlers that write the store and call out, under
\* concurrent requests and configuration changes.
Next ==
    \/ \E d \in ShopDomains : AuthCallback(d)
    \/ \E d \in ShopDomains, b \in ConfigBodies :
            ApiConfigUpdate(d, b.walletAddress, b.acceptedToken, b.acceptedNetwork,
                            b.isX402Enabled)
    \/ \E d \in ShopInputs, b \in VerifyBodies : ApiPaymentVerify(d, b)
    \/ \E e \in ProxyEnvelopes, b \in VerifyBodies : ProxyPaymentVerify(e, b)
    \/ \E o \in HandlerOutcomes : VerifyCallFacilitator(o)
    \/ VerifyStorePayment
    \/ \E o \in OrderOutcomes : ProxyCreateOrder(o)

Spec == Init /\ [][Next]_vars

\* The payment-request endpoints, which only read the store, under
\* configuration changes.
NextRequest ==
    \/ \E d \in ShopDomains : AuthCallback(d)
    \/ \E d \in ShopDomains, b \in ConfigBodies :
            ApiConfigUpdate(d, b.walletAddress, b.acceptedToken, b.acceptedNetwork,
                            b.isX402Enabled)
    \/ \E d \in ShopInputs, b \in RequestBodies : ApiPaymentRequest(d, b)
    \/ \E e \in ProxyEnvelopes, b \in RequestBodies : ProxyPaymentRequest(e, b)

SpecRequest == Init /\ [][NextRequest]_vars

(***************************************************************************)
(* X402Service.verifyPayment on its own: one call with a request and an    *)
(* outcome of the outbound POST drawn from the sets below.                 *)
(***************************************************************************)
VerifyRequests ==
    [txHash : TxHashes, network : Networks \cup {Null},
     fromAddress : {"0xBuyer", "0xOther"}, toAddress : Wallets \cup {Null},
     tokenAddress : Tokens \cup {Null}, amount : {"10", "25"}]

VerifyPaymentCall(request, outcome) ==
    /\ call' = [made |-> TRUE, request |-> request, outcome |-> outcome,
                attempts |-> VerifyAttempts(outcome),
                result |-> verifyPayment(request, outcome)]
    /\ UNCHANGED <<shops, payments, requests, orderLog, sent, issued>>

NextFacilitator ==
    \E request \in VerifyRequests, outcome \in FacilitatorOutcomes :
        VerifyPaymentCall(request, outcome)

SpecFacilitator == Init /\ [][NextFacilitator]_vars

(***************************************************************************)
(* GET /api/config and POST /api/config with their responses: each handler *)
(* makes one store call, so it is one step.                                *)
(***************************************************************************)
\* A handler that skips its parameter check.
NoShopCheck(shop) == FALSE

\* if (!shop)
ShopMissing(shop) == Falsy(shop)

\* select: { walletAddress, acceptedToken, acceptedNetwork, isX402Enabled }
ConfigView(shopData) ==
    [walletAddress |-> shopData.walletAddress,
     acceptedToken |-> shopData.acceptedToken,
     acceptedNetwork |-> shopData.acceptedNetwork,
     isX402Enabled |-> shopData.isX402Enabled]

ApiConfigGetResponse(shop) ==
    IF ShopMissing(shop) THEN ErrorResponse(400, "Missing shop parameter")
    ELSE IF FindShop(shop) = NoShop THEN ErrorResponse(404, "Shop not found")
    ELSE [code |-> 200, config |-> ConfigView(FindShop(shop))]

ApiConfigGet(shop) ==
    /\ sent' = [route |-> "api_config_get", shop |-> shop,
                resp |-> ApiConfigGetResponse(shop)]
    /\ UNCHANGED <<shops, payments, requests, orderLog, issued, call>>

\* The row prisma.shop.update leaves for the data of `body`.
UpdatedShop(row, body) ==
    [row EXCEPT !.walletAddress = SetColumn(@, body.walletAddress),
                !.acceptedToken = SetColumn(@, body.acceptedToken),
                !.acceptedNetwork = SetColumn(@, body.acceptedNetwork),
                !.isX402Enabled = IF body.isX402Enabled = "true" THEN TRUE
                                  ELSE IF body.isX402Enabled = "false" THEN FALSE
                                  ELSE @]

\* POST /api/config with its response: prisma.shop.update throws for a shop
\* that is not stored, and the catch block answers 500.
ApiConfigPost(shop, body) ==
    /\ IF ShopMissing(shop)
       THEN /\ shops' = shops
            /\ sent' = [route |-> "api_config_post", shop |-> shop, body |-> body,
                        resp |-> ErrorResponse(400, "Missing shop parameter")]
       ELSE IF FindShop(shop) = NoShop
       THEN /\ shops' = shops
            /\ sent' = [route |-> "api_config_post", shop |-> shop, body |-> body,
                        resp |-> ErrorResponse(500, "Failed to update configuration")]
       ELSE LET updated == UpdatedShop(shops[shop], body)
            IN /\ shops' = [shops EXCEPT ![shop] = updated]
               /\ sent' = [route |-> "api_config_post", shop |-> shop, body |-> body,
                           resp |-> [code |-> 200, success |-> TRUE,
                                     config |-> ConfigView(updated)]]
    /\ UNCHANGED <<payments, requests, orderLog, issued, call>>

\* Bodies of POST /api/config with its response observed: those of
\* ConfigBodies, one that clears the configuration and one with the wallet
\* alone.
ConfigPostBodies ==
    ConfigBodies
        \cup {[walletAddress |-> Null, acceptedToken |-> Null,
                acceptedNetwork |-> Null, isX402Enabled |-> "false"],
               [walletAddress |-> "0xWallet", acceptedToken |-> Undefined,
                acceptedNetwork |-> Undefined, isX402Enabled |-> Undefined]}

NextConfig ==
    \/ \E d \in ShopDomains : AuthCallback(d)
    \/ \E d \in ShopInputs, b \in ConfigPostBodies : ApiConfigPost(d, b)
    \/ \E d \in ShopInputs : ApiConfigGet(d)

SpecConfig == Init /\ [][NextConfig]_vars

(***************************************************************************)
(* GET /api/payments.  The shop row it reads first is never deleted and    *)
(* its id never changes, so the two reads of the handler are one step, at  *)
(* the time of findMany.                                                   *)
(***************************************************************************)
Take == 50

Min(a, b) == IF a < b THEN a ELSE b

\* where: { shopId }
Owned(rows, shopId) == SelectSeq(rows, LAMBDA row : row.shopId = shopId)

\* orderBy: { createdAt: 'desc' } names no second key: rows with the same
\* createdAt come back in an order the store chooses.
SortedDesc(seq) ==
    \A i \in 1..(Len(seq) - 1) : seq[i].createdAt >= seq[i + 1].createdAt

OrderedByCreatedAtDesc(rows) ==
    {seq \in [1..Len(rows) -> {rows[i] : i \in 1..Len(rows)}] :
        /\ \A i \in 1..Len(rows) : \E j \in 1..Len(rows) : seq[j] = rows[i]
        /\ SortedDesc(seq)}

\* prisma.payment.findMany({ where, orderBy, take }): the results the store
\* may return.
findMany(rows, shopId) ==
    {SubSeq(seq, 1, Min(Take, Len(seq))) :
        seq \in OrderedByCreatedAtDesc(Owned(rows, shopId))}

ApiPaymentsList(shop) ==
    /\ IF ShopMissing(shop)
       THEN sent' = [route |-> "api_payments", shop |-> shop,
                     resp |-> ErrorResponse(400, "Missing shop parameter")]
       ELSE IF FindShop(shop) = NoShop
       THEN sent' = [route |-> "api_payments", shop |-> shop,
                     resp |-> ErrorResponse(404, "Shop not found")]
       ELSE \E found \in findMany(payments, FindShop(shop).id) :
               sent' = [route |-> "api_payments", shop |-> shop,
                        resp |-> [code |-> 200, payments |-> found]]
    /\ UNCHANGED <<shops, payments, requests, orderLog, issued, call>>

\* The direct verify flow, which records payments, and the payment list.
NextPayments ==
    \/ \E d \in ShopDomains : AuthCallback(d)
    \/ \E d \in ShopDomains, b \in ConfigBodies :
            ApiConfigUpdate(d, b.walletAddress, b.acceptedToken, b.acceptedNetwork,
                            b.isX402Enabled)
    \/ \E d \in ShopDomains, b \in VerifyBodies : ApiPaymentVerify(d, b)
    \/ \E o \in HandlerOutcomes : VerifyCallFacilitator(o)
    \/ VerifyStorePayment
    \/ \E d \in ShopInputs : ApiPaymentsList(d)

SpecPayments == Init /\ [][NextPayments]_vars

(***************************************************************************)
(* Properties                                                              *)
(***************************************************************************)
Rows == {payments[i] : i \in 1..Len(payments)}
VerifyRoutes == {"api_verify", "proxy_verify"}
RequestRoutes == {"api_request", "proxy_request"}

\* C1: a payment row written for a verified=true result has status
\* "completed" and facilitatorStatus "verified", in the store and in the
\* handler that created it; no row with status "completed" comes from a
\* result with verified=false.
C1_VerifiedRowsCompleted ==
    /\ \A row \in Rows :
        /\ row.verificationData.verified =>
              row.status = "completed" /\ row.facilitatorStatus = "verified"
        /\ row.status = "completed" => row.verificationData.verified
    /\ \A req \in InFlight :
        req.payment # NoPayment /\ req.verification.verified =>
            /\ req.payment \in Rows
            /\ req.payment.status = "completed"
            /\ req.payment.facilitatorStatus = "verified"

\* Both flows have written a row for a verified result.
C1_Witness ==
    \E a, b \in Rows :
        /\ a.txHash # b.txHash
        /\ a.verificationData.verified /\ a.status = "completed"
        /\ b.verificationData.verified /\ b.status = "completed"
        /\ \E call_ \in {orderLog[i] : i \in 1..Len(orderLog)} : call_.paymentId = a.id
        /\ \A call_ \in {orderLog[i] : i \in 1..Len(orderLog)} : call_.paymentId # b.id
        /\ issued = MaxRequests /\ requests = EmptyBag

\* C2: every verify request that passed the precondition checks and got an
\* unverified result has, when it answers, a payment row of its own with
\* status "failed" -- in the direct flow and in the proxy flow.
Answered(req) == req \in InFlight /\ requests' = requests (-) SetToBag({req})

UnverifiedAnswer(req) ==
    /\ Answered(req)
    /\ \/ req.pc = "createPayment" /\ ~req.verification.verified
       \/ req.pc = "verifyPayment" /\ sent'.resp.code = 400

C2_FailedAttemptRecorded ==
    [][\A req \in InFlight :
          UnverifiedAnswer(req) =>
              \E i \in 1..Len(payments') :
                  /\ payments'[i].txHash = req.body.txHash
                  /\ payments'[i].shopId = req.shopData.id
                  /\ payments'[i].status = "failed"]_vars

\* C3: no two rows of "Payment" share a txHash.
C3_TxHashUnique ==
    \A i, j \in 1..Len(payments) :
        payments[i].txHash = payments[j].txHash => i = j

\* A second writer of a stored txHash was turned away by the index.
C3_Witness ==
    /\ Len(payments) = 1
    /\ sent.route = "proxy_verify"
    /\ sent.resp = ErrorResponse(500, UniqueViolation)

\* C4: a verify handler whose create meets a stored txHash answers with an
\* error that identifies a conflict, leaves the rows as they are and makes
\* no order call.
IdentifiesConflict(resp) ==
    resp.code >= 400 /\ (resp.code = 409 \/ resp.error = UniqueViolation)

C4_DuplicateSurfacesConflict ==
    [][\A req \in InFlight :
          /\ req.pc = "createPayment"
          /\ TxHashTaken(payments, req.body.txHash)
          /\ ~MissingColumn(PaymentData(req, RowFacilitatorStatus(req), RowStatus(req)))
          /\ CopiesIn(req, requests') < CopiesIn(req, requests)
          => /\ Answered(req)
             /\ IdentifiesConflict(sent'.resp)
             /\ payments' = payments
             /\ orderLog' = orderLog]_vars

\* C5: a payment-request call naming a stored shop whose isX402Enabled flag
\* is false is answered 400; the step leaves the shop and payment tables as
\* they were, starts no handler, calls the facilitator not at all and makes
\* no order call.
DisabledShop(shop) == FindShop(shop) # NoShop /\ ~FindShop(shop).isX402Enabled

C5_DisabledShopRequestRejected ==
    [][/\ issued' = issued + 1
       /\ sent'.route \in RequestRoutes
       /\ DisabledShop(sent'.shop)
       => /\ sent'.resp.code = 400
          /\ shops' = shops
          /\ payments' = payments
          /\ requests' = requests
          /\ orderLog' = orderLog
          /\ call' = call]_vars

\* A disabled shop with wallet, token and network set was turned away by
\* the last request of the run, after which the configuration is not changed.
C5_Witness ==
    /\ sent.route \in RequestRoutes
    /\ DisabledShop(sent.shop)
    /\ ~ConfigIncomplete(FindShop(sent.shop))
    /\ sent.resp = ErrorResponse(400, "x402 payments not enabled for this shop")
    /\ issued = MaxRequests

\* C6: a verify handler that read a shop with payments disabled, or with
\* wallet, token or network unset, has called the facilitator not at all and
\* holds no payment row.
C6_DisabledShopNeverVerified ==
    \A req \in InFlight :
        /\ req.shopData # NoShop
        /\ ~req.shopData.isX402Enabled \/ ConfigIncomplete(req.shopData)
        => req.facilitatorCalls = 0 /\ req.payment = NoPayment

\* C7: every createOrder call is made by a verify handler whose verification
\* result is verified=true and whose payment row, with the call's txHash and
\* status "completed", is in the store before the call.
C7_OrderOnlyAfterCompletedRow ==
    [][orderLog' # orderLog =>
          /\ Len(orderLog') = Len(orderLog) + 1
          /\ LET entry == orderLog'[Len(orderLog')]
             IN /\ entry.verified
                /\ \E req \in InFlight :
                      /\ Answered(req)
                      /\ req.route \in VerifyRoutes
                      /\ req.facilitatorCalls = 1
                      /\ req.verification.verified
                      /\ req.body.txHash = entry.txHash
                      /\ req.payment.id = entry.paymentId
                      /\ req.payment \in Rows
                      /\ req.payment.txHash = entry.txHash
                      /\ req.payment.status = "completed"
                      /\ req.payment.verificationData.verified]_vars

\* An order was created and its receipt sent.
C7_Witness ==
    /\ sent.resp.code = 200
    /\ "order" \in DOMAIN sent.resp
    /\ \E i \in 1..Len(orderLog) :
          /\ orderLog[i].ok
          /\ orderLog[i].paymentId = sent.resp.paymentId

\* C8: a verify request of either flow answered as verified, with its payment
\* row stored, carries the order receipt and has made a createOrder call for
\* that payment.
C8_VerifiedPaymentOrdered ==
    /\ sent.route \in VerifyRoutes
    /\ sent.resp.code = 200
    /\ sent.resp.verified
    => /\ "order" \in DOMAIN sent.resp
       /\ \E i \in 1..Len(orderLog) : orderLog[i].paymentId = sent.resp.paymentId

\* C9: a createOrder call that fails ends its request with a 500 and leaves
\* "Payment" as it was; the row of every failed call stays stored with status
\* "completed" and facilitatorStatus "verified", with no successful order
\* call for it.
FailedOrder(req) ==
    /\ req.pc = "createOrder"
    /\ Answered(req)
    /\ Len(orderLog') = Len(orderLog) + 1
    /\ ~orderLog'[Len(orderLog')].ok

C9_OrderFailureKeepsRow ==
    [][/\ \A req \in InFlight :
            FailedOrder(req) =>
                /\ sent'.resp.code = 500
                /\ payments' = payments
       /\ \A j \in 1..Len(orderLog') :
            ~orderLog'[j].ok =>
                /\ \E i \in 1..Len(payments') :
                      /\ payments'[i].id = orderLog'[j].paymentId
                      /\ payments'[i].txHash = orderLog'[j].txHash
                      /\ payments'[i].status = "completed"
                      /\ payments'[i].facilitatorStatus = "verified"
                /\ \A k \in 1..Len(orderLog') :
                      orderLog'[k].paymentId = orderLog'[j].paymentId
                          => ~orderLog'[k].ok]_vars

\* An order call failed: the client got the 500, the row is still there.
C9_Witness ==
    /\ sent.resp = ErrorResponse(500, OrderError)
    /\ \E j \in 1..Len(orderLog), i \in 1..Len(payments) :
          /\ ~orderLog[j].ok
          /\ payments[i].id = orderLog[j].paymentId
          /\ payments[i].status = "completed"

\* C10: verifyPayment makes one outbound request; its result is verified
\* only when that request came back 2xx with verified exactly true; when the
\* request failed (transport, timeout, non-2xx) the result is verified=false
\* with status "failed" and a transaction built from the request's fields.
C10_VerifyPaymentFailClosed ==
    call.made =>
        /\ call.attempts = 1
        /\ call.result.verified \in BOOLEAN
        /\ call.result.verified =>
              /\ call.outcome.kind = "2xx"
              /\ call.outcome.data.object
              /\ call.outcome.data.verified = JTrue
        /\ call.outcome.kind \in FacilitatorFailures =>
              /\ call.result.verified = FALSE
              /\ call.result.status = "failed"
              /\ call.result.transaction.hash = call.request.txHash
              /\ call.result.transaction.from = call.request.fromAddress
              /\ call.result.transaction.to = call.request.toAddress
              /\ call.result.transaction.value = call.request.amount
              /\ call.result.transaction.token = call.request.tokenAddress

\* A call whose outbound request timed out.
C10_Witness ==
    /\ call.made
    /\ call.outcome.kind = "timeout"
    /\ ~call.result.verified
    /\ call.request.txHash = "0xfeed"
    /\ call.request.toAddress = Null

\* C11: every payment request issued, by either payment-request endpoint,
\* carries a recipient, token and network that are set; a shop with one of
\* the three unset is answered 400.
C11_IssuedRequestComplete ==
    /\ sent.route \in RequestRoutes
    /\ sent.resp.code = 200
    => /\ ~Falsy(sent.resp.paymentRequest.recipient)
       /\ ~Falsy(sent.resp.paymentRequest.token)
       /\ ~Falsy(sent.resp.paymentRequest.network)

\* C12: a request naming a shop that is not stored is answered 404 and
\* leaves the shop and payment tables as they were, whatever the endpoint.
NamesUnknownShop(shop) == ~Falsy(shop) /\ FindShop(shop) = NoShop

C12_UnknownShopNotFound ==
    [][sent' # sent /\ NamesUnknownShop(sent'.shop)
          => /\ sent'.resp.code = 404
             /\ shops' = shops
             /\ payments' = payments]_vars

\* C13: GET /api/config without shop is answered 400 with an error, GET
\* /api/config for a shop that is not stored is answered 404, and neither
\* changes a table.
C13_ConfigGetGuards ==
    [][sent' # sent /\ sent'.route = "api_config_get"
          => /\ Falsy(sent'.shop) =>
                   /\ sent'.resp.code = 400
                   /\ "error" \in DOMAIN sent'.resp
                   /\ ~Falsy(sent'.resp.error)
             /\ NamesUnknownShop(sent'.shop) => sent'.resp.code = 404
             /\ shops' = shops
             /\ payments' = payments
             /\ orderLog' = orderLog]_vars

\* A GET for a shop that is not stored was answered 404 while another shop
\* is stored.
C13_Witness ==
    /\ sent.route = "api_config_get"
    /\ NamesUnknownShop(sent.shop)
    /\ sent.resp = ErrorResponse(404, "Shop not found")
    /\ \E d \in ShopDomains : shops[d] # NoShop

\* C14: a GET /api/config that follows a successful POST /api/config with
\* all four fields, for the same shop, returns the four values posted; a GET
\* repeated for that shop returns what the previous GET returned.
CarriesAllFields(body) ==
    /\ body.walletAddress # Undefined
    /\ body.acceptedToken # Undefined
    /\ body.acceptedNetwork # Undefined
    /\ body.isX402Enabled # Undefined

C14_ConfigReadsBackPost ==
    [][/\ sent'.route = "api_config_get"
       /\ sent'.shop = sent.shop
       /\ sent.resp.code = 200
       => /\ sent.route = "api_config_post" /\ CarriesAllFields(sent.body) =>
                /\ sent'.resp.code = 200
                /\ sent'.resp.config.walletAddress = sent.body.walletAddress
                /\ sent'.resp.config.acceptedToken = sent.body.acceptedToken
                /\ sent'.resp.config.acceptedNetwork = sent.body.acceptedNetwork
                /\ sent'.resp.config.isX402Enabled = (sent.body.isX402Enabled = "true")
          /\ sent.route = "api_config_get" => sent'.resp = sent.resp]_vars

\* The configuration posted for a shop was read back.
C14_Witness ==
    /\ sent.route = "api_config_get"
    /\ sent.resp.code = 200
    /\ sent.resp.config =
          [walletAddress |-> "0xWallet", acceptedToken |-> "USDC",
           acceptedNetwork |-> "base", isX402Enabled |-> TRUE]

\* C15: GET /api/payments for a stored shop returns rows of that shop only,
\* at most 50 of them, newest first, no omitted row of the shop newer than a
\* returned one; and the row recorded last, when it is the shop's, comes
\* first.
Listed(resp) == {resp.payments[i] : i \in 1..Len(resp.payments)}

C15_PaymentsNewestFirst ==
    [][sent' # sent /\ sent'.route = "api_payments" /\ sent'.resp.code = 200
          => LET shopId == FindShop(sent'.shop).id
                 found == sent'.resp.payments
                 ownedRows == {row \in Rows : row.shopId = shopId}
             IN /\ Listed(sent'.resp) \subseteq ownedRows
                /\ Len(found) = Min(50, Cardinality(ownedRows))
                /\ SortedDesc(found)
                /\ \A row \in ownedRows \ Listed(sent'.resp) :
                      \A shown \in Listed(sent'.resp) :
                          shown.createdAt >= row.createdAt
                /\ payments # <<>> /\ payments[Len(payments)].shopId = shopId
                      => found[1] = payments[Len(payments)]]_vars

\* C16: no step changes a field of a stored payment row or removes a row;
\* a txHash stored with status "failed" has no row of any other status
\* afterwards.
C16_RowsNeverChange ==
    [][/\ Len(payments') >= Len(payments)
       /\ \A i \in 1..Len(payments) : payments'[i] = payments[i]
       /\ \A i \in 1..Len(payments), j \in 1..Len(payments') :
             /\ payments[i].status = "failed"
             /\ payments'[j].txHash = payments[i].txHash
             => payments'[j].status = "failed"]_vars

\* A txHash was stored as failed; a later attempt for it that the
\* facilitator verified was turned away and the row is as it was.
C16_Witness ==
    /\ Len(payments) = 1
    /\ payments[1].status = "failed"
    /\ ~payments[1].verificationData.verified
    /\ sent.route = "proxy_verify"
    /\ sent.resp = ErrorResponse(500, UniqueViolation)
    /\ orderLog = <<>>
    /\ issued = MaxRequests

\* C17: the order client is called at most once per txHash, so a txHash
\* whose order call failed has no successful order call.
C17_OneOrderCallPerTxHash ==
    \A i, j \in 1..Len(orderLog) :
        orderLog[i].txHash = orderLog[j].txHash => i = j

\* An order call failed and the retry of the request was turned away by the
\* index before it reached the order call.
C17_Witness ==
    /\ Len(orderLog) = 1
    /\ ~orderLog[1].ok
    /\ sent.route = "proxy_verify"
    /\ sent.resp = ErrorResponse(500, UniqueViolation)
    /\ issued = MaxRequests
    /\ requests = EmptyBag

====
